---- MODULE Spec2Model ----
(***************************************************************************)
(* Checkout / order core of the Elegant La Vie store.                      *)
(*                                                                         *)
(* The repository holds two builds of the Cloudflare worker:               *)
(*   "whatsapp"  src/unnamed/part_000  (WhatsApp + COD, prices in PKR)     *)
(*   "stripe"    src/src/worker.js     (Stripe PaymentIntent + webhook)    *)
(* each with its own tables in src/schema.sql.  A deployment runs one of   *)
(* them; `worker` says which, and is fixed by Init.                        *)
(*                                                                         *)
(* A handler is an async function: the code between two awaits touches     *)
(* only the request's locals, and every awaited D1 statement (and          *)
(* db.batch, which D1 runs as one transaction) is atomic in the store.     *)
(* So there is one action per awaited store / Stripe call, made of the     *)
(* local code that precedes the call and the call itself; the requests'    *)
(* actions interleave freely.                                              *)
(*                                                                         *)
(* Faults of the environment that are modelled: the order_items batch may  *)
(* fail at any of its statements (D1 rolls the batch back), and            *)
(* stripe.paymentIntents.create may fail.  A thrown error reaches          *)
(* app.onError, which answers 500.                                         *)
(*                                                                         *)
(* Money: price columns are REAL; the model uses whole amounts, for which  *)
(* the JavaScript arithmetic of the handlers is exact.                     *)
(***************************************************************************)
EXTENDS Integers, Sequences, FiniteSets, TLC

VARIABLES
  worker,        \* which build of src/worker.js is deployed
  products,      \* table products: id -> row
  orders,        \* table orders: sequence of rows, row i has id i (AUTOINCREMENT)
  order_items,   \* table order_items: sequence of rows
  req,           \* the POST /api/checkout requests: locals, position, response
  updates,       \* number of PUT /api/products/:id updates applied and of
                 \* PUT /api/admin/orders/:id requests answered so far
  now,           \* the store's clock, datetime('now')
  intents,       \* number of PaymentIntents created at Stripe so far
  hook,          \* the last delivery to POST /api/checkout/webhook and its answer
  put            \* the answer to the last PUT /api/admin/orders/:id request

vars == <<worker, products, orders, order_items, req, updates, now, intents, hook, put>>

----------------------------------------------------------------------------
(* Bounds of the model *)

NumProcs == 2            \* checkout requests (they run concurrently)
MaxUpdates == 1          \* PUT /api/products/:id requests
MaxClock == 1            \* clock ticks

Procs == 1..NumProcs

----------------------------------------------------------------------------
(* Values *)

NULL == 0 - 1            \* SQL NULL / JS null in a numeric column
NULLS == "NULL"          \* SQL NULL in a text column
ProductIds == {1, 2, 3}  \* ids of the catalog rows; id 4 names no row

Max(a, b) == IF a >= b THEN a ELSE b

\* body.f is present (f in body)
Has(body, f) == f \in DOMAIN body

\* destructuring default: const { f = d } = body
Get(body, f, d) == IF Has(body, f) THEN body[f] ELSE d

\* String.prototype.trim on the strings the model uses
Trim(s) ==
  CASE s = "  " -> ""
    [] s = " Ali " -> "Ali"
    [] OTHER -> s

\* !body.f?.trim()
Blank(body, f) == ~Has(body, f) \/ Trim(body[f]) = ""

\* a JavaScript number: an integer, or NaN
Num(n) == [nan |-> FALSE, n |-> n]
NaN == [nan |-> TRUE, n |-> 0]

\* parseInt on the strings the model uses: the integer the string starts with,
\* NaN when it starts with none
ParseIntText(s) ==
  CASE s = "2" -> Num(2)
    [] OTHER -> NaN

\* parseInt(item.quantity): quantity holds a number, quantity_text stands for a
\* quantity that holds a string, and a line with neither has no quantity
\* (parseInt(undefined) is NaN)
parseInt(item) ==
  IF Has(item, "quantity") THEN Num(item.quantity)
  ELSE IF Has(item, "quantity_text") THEN ParseIntText(item.quantity_text)
  ELSE NaN

\* v || 1: NaN and 0 are falsy
ParseIntOr1(v) == IF v.nan \/ v.n = 0 THEN 1 ELSE v.n

\* faulty variant of Qty: Math.max(1, ...) is missing
QtyNoMax(item) == ParseIntOr1(parseInt(item))

\* Math.max(1, parseInt(item.quantity) || 1)
Qty(item) == Max(1, ParseIntOr1(parseInt(item)))

\* Format of a response
Resp(status, error) ==
  [status |-> status, error |-> error, order_id |-> NULL,
   subtotal |-> NULL, shipping |-> NULL, discount |-> NULL,
   wrapping_fee |-> NULL, total |-> NULL, free_shipping |-> FALSE,
   client_secret |-> NULL]

NoResp == Resp(0, "")

jsonError(message, status) == Resp(status, message)

----------------------------------------------------------------------------
(* Requests *)

Line(p, q) == [product_id |-> p, quantity |-> q]

\* a cart line to which the client has added prices of its own
PricedLine(p, q) ==
  [product_id |-> p, quantity |-> q, price |-> 1, unit_price |-> 1, line_total |-> 1]

\* a cart line whose quantity is the string s
TextLine(p, s) == [product_id |-> p, quantity_text |-> s]

\* items arrays; product 3 is inactive, product 4 is not in the catalog
Carts ==
  { <<>>,
    <<Line(1, 2)>>, <<Line(2, 1)>>, <<Line(3, 1)>>, <<Line(4, 1)>>,
    <<Line(1, 1), Line(2, 1)>>, <<Line(1, 1), Line(2, 2)>>,
    <<Line(2, 2), Line(1, 1)>>, <<Line(1, 1), Line(1, 2)>>,
    <<Line(1, 0), Line(2, 0 - 2)>> }

\* items arrays with a quantity that is not a number: absent, or a string
TextCarts ==
  { <<[product_id |-> 1], TextLine(2, "abc")>>,
    <<TextLine(1, "2")>> }

WaBase ==
  [customer_name |-> " Ali ", customer_phone |-> "0300", customer_city |-> "Lahore",
   customer_address |-> "1 Mall Rd", items |-> <<Line(1, 1)>>]

\* request bodies of the WhatsApp build's POST /api/checkout
WaBodies ==
  { [WaBase EXCEPT !.items = c] : c \in Carts \cup TextCarts }
  \cup { [customer_name |-> " Ali ", customer_phone |-> "0300", customer_city |-> "Lahore",
          customer_address |-> "1 Mall Rd", items |-> <<PricedLine(2, 1)>>,
          gift_wrapping |-> w, subtotal |-> 1, shipping |-> 1, total |-> 1]
         : w \in {"standard", "premium", "bogus"} }
  \cup { [customer_name |-> " Ali ", customer_phone |-> "0300", customer_city |-> "Lahore",
          customer_address |-> "1 Mall Rd", items |-> <<PricedLine(2, 1)>>, total |-> 1],
         [WaBase EXCEPT !.customer_name = "  "],
         [WaBase EXCEPT !.customer_address = "  ", !.items = <<>>],
         [customer_name |-> "Ali", customer_phone |-> "0300", customer_city |-> "Lahore",
          customer_address |-> "1 Mall Rd"],
         [customer_name |-> "Ali", customer_phone |-> "0300", customer_city |-> "Lahore",
          customer_address |-> "1 Mall Rd", items |-> <<Line(1, 1)>>,
          payment_method |-> "card"] }

\* requests to the Stripe build's POST /api/checkout: the JSON body, and the
\* Authorization header when it carries a token that verifies
StBodies ==
  { [Authorization |-> "Bearer ok", items |-> c] :
      c \in Carts \ {<<Line(2, 1)>>, <<Line(1, 1), Line(2, 1)>>} }
  \cup { [Authorization |-> "Bearer ok", items |-> <<PricedLine(1, 1)>>,
          gift_wrapping |-> w, total |-> 1]
         : w \in {"emerald_box", "bogus"} }
  \cup { [items |-> <<Line(1, 1)>>],
         [Authorization |-> "Bearer ok"] }

NoTotals ==
  [subtotal |-> NULL, shipping |-> NULL, wrapping_fee |-> NULL, discount |-> NULL,
   total |-> NULL]

\* a request that has not arrived yet.  lookups counts the product SELECTs the
\* request has sent to the store; fault names the call that threw, if one did
IdleReq ==
  [pc |-> "idle", body |-> [items |-> <<>>], dbProducts |-> <<>>, lineItems |-> <<>>,
   totals |-> NoTotals, orderId |-> NULL, paymentIntent |-> NULL, lookups |-> 0,
   fault |-> "", resp |-> NoResp]

\* the request has been answered
Done(r, resp) == [r EXCEPT !.pc = "done", !.resp = resp]

\* a call threw: app.onError answers 500
Threw(r, call) ==
  [r EXCEPT !.pc = "done", !.fault = call, !.resp = Resp(500, "Internal server error")]

\* the items array of a body, empty when the body has none
CartOf(body) == Get(body, "items", <<>>)

----------------------------------------------------------------------------
(* The catalog *)

Product(name, price, sale, stock, active) ==
  [name |-> name, price |-> price, sale_price |-> sale, stock |-> stock,
   is_active |-> active]

\* the catalog at the start: price_pkr in rupees for the WhatsApp build, price in
\* dollars (and no sale price column) for the Stripe build; product 3 is inactive
SeedProducts(w) ==
  [i \in ProductIds |->
     IF w = "whatsapp"
       THEN CASE i = 1 -> Product("Oud Royale", 2500, NULL, 2, 1)
              [] i = 2 -> Product("Gulab", 4999, NULL, 1, 1)
              [] OTHER -> Product("Musk", 1000, NULL, 5, 0)
       ELSE CASE i = 1 -> Product("Citrus Breeze", 25, NULL, 2, 1)
              [] i = 2 -> Product("Oud Noir", 185, NULL, 1, 1)
              [] OTHER -> Product("Rose Royale", 160, NULL, 5, 0)]

----------------------------------------------------------------------------
(* Webhook events *)

\* order_id is metadata.order_id of the intent: the events of the model name
\* there the order numbered like the intent, which is the intent's own order in
\* some behaviours and another checkout's order in others
Event(type, id, latest_charge, signed) ==
  [type |-> type, id |-> id, latest_charge |-> latest_charge, signed |-> signed,
   order_id |-> id]

\* deliveries to POST /api/checkout/webhook: `signed` says whether the
\* stripe-signature header verifies against STRIPE_WEBHOOK_SECRET
Events ==
  { Event("payment_intent.succeeded", i, "ch_1", TRUE) : i \in Procs }
  \cup { Event("payment_intent.succeeded", 1, NULLS, TRUE),
         Event("payment_intent.payment_failed", 1, "ch_1", TRUE),
         Event("payment_intent.succeeded", 1, "ch_1", FALSE),
         Event("payment_intent.payment_failed", 1, "ch_1", FALSE) }

\* the answer to the last delivery; replay: the delivery found its order already
\* marked paid with the event's charge (the event had been applied before);
\* statements: the UPDATEs the handler sent to the store; matched: the rows
\* they matched
NoHook == [status |-> 0, replay |-> FALSE, statements |-> 0, matched |-> 0]

\* the answer to the last PUT /api/admin/orders/:id: none yet.  outside: the
\* body carried a status or a payment_status that is not in the route's lists;
\* missing: the id of the request named no row of orders
NoPut == [status |-> 0, error |-> "", outside |-> FALSE, missing |-> FALSE]

----------------------------------------------------------------------------
Init ==
  /\ worker \in {"whatsapp", "stripe"}
  /\ products = SeedProducts(worker)
  /\ orders = <<>>
  /\ order_items = <<>>
  /\ req = [p \in Procs |-> IdleReq]
  /\ updates = 0
  /\ now = 0
  /\ intents = 0
  /\ hook = NoHook
  /\ put = NoPut

----------------------------------------------------------------------------
(* POST /api/checkout, WhatsApp build *)

VALID_PAYMENTS == {"cod", "easypaisa", "jazzcash", "bank"}
VALID_WRAPPING == {"none", "standard", "premium"}

FREE_SHIPPING_THRESHOLD == 5000
FLAT_SHIPPING == 200
DISCOUNT_PKR == 0

\* faulty variant of WaFieldError: the empty-cart check is missing
WaFieldErrorNoCart(body) ==
  IF Blank(body, "customer_name") THEN "Apna naam darain"
  ELSE IF Blank(body, "customer_phone") THEN "Phone number darain"
  ELSE IF Blank(body, "customer_city") THEN "Sheher ka naam darain"
  ELSE IF Blank(body, "customer_address") THEN "Address darain"
  ELSE IF Get(body, "payment_method", "cod") \notin VALID_PAYMENTS
    THEN "Invalid payment method"
  ELSE IF Get(body, "gift_wrapping", "none") \notin VALID_WRAPPING
    THEN "Invalid gift wrapping option"
  ELSE ""

\* the checks made before the first statement is sent to the store
WaFieldError(body) ==
  IF Blank(body, "customer_name") THEN "Apna naam darain"
  ELSE IF Blank(body, "customer_phone") THEN "Phone number darain"
  ELSE IF Blank(body, "customer_city") THEN "Sheher ka naam darain"
  ELSE IF Blank(body, "customer_address") THEN "Address darain"
  ELSE IF ~Has(body, "items") \/ Len(body.items) = 0 THEN "Cart is empty"
  ELSE IF Get(body, "payment_method", "cod") \notin VALID_PAYMENTS
    THEN "Invalid payment method"
  ELSE IF Get(body, "gift_wrapping", "none") \notin VALID_WRAPPING
    THEN "Invalid gift wrapping option"
  ELSE ""

\* SELECT ... FROM products WHERE id IN (ids): the rows found, by id
WaSelectProducts(items) ==
  LET productIds == {items[i].product_id : i \in DOMAIN items}
  IN [id \in productIds \cap DOMAIN products |-> products[id]]

\* product.sale_price_pkr ?? product.price_pkr
WaUnitPrice(product) ==
  IF product.sale_price = NULL THEN product.price ELSE product.sale_price

\* faulty variant of WaInStock: any stock at all passes
WaInStockAny(product, qty) == product.stock > 0

\* product.stock < qty is the rejection; this is its negation
WaInStock(product, qty) == ~(product.stock < qty)

\* the loop over items: the first error, or the line items
RECURSIVE WaBuildLines(_, _, _)
WaBuildLines(items, dbProducts, acc) ==
  IF items = <<>> THEN [error |-> "", lineItems |-> acc]
  ELSE
    LET item == Head(items)
        qty == Qty(item)
    IN IF item.product_id \notin DOMAIN dbProducts
         THEN [error |-> "Product not found", lineItems |-> <<>>]
       ELSE LET product == dbProducts[item.product_id]
                unitPrice == WaUnitPrice(product)
            IN IF product.is_active = 0
                 THEN [error |-> "is currently unavailable", lineItems |-> <<>>]
               ELSE IF ~WaInStock(product, qty)
                 THEN [error |-> "only N left in stock", lineItems |-> <<>>]
               ELSE WaBuildLines(Tail(items), dbProducts,
                      Append(acc, [product_id |-> item.product_id,
                                   product_name |-> product.name,
                                   quantity |-> qty,
                                   unit_price |-> unitPrice,
                                   line_total |-> unitPrice * qty]))

RECURSIVE SumLineTotals(_)
SumLineTotals(lineItems) ==
  IF lineItems = <<>> THEN 0
  ELSE Head(lineItems).line_total + SumLineTotals(Tail(lineItems))

\* faulty variant of SHIPPING_PKR: the threshold itself is not free
SHIPPING_PKR_Strict(subtotalPkr) ==
  IF subtotalPkr > FREE_SHIPPING_THRESHOLD THEN 0 ELSE FLAT_SHIPPING

SHIPPING_PKR(subtotalPkr) ==
  IF subtotalPkr >= FREE_SHIPPING_THRESHOLD THEN 0 ELSE FLAT_SHIPPING

\* faulty variant of WRAPPING_FEE: the premium box is charged as the standard one
WRAPPING_FEE_OneFee(gift_wrapping) ==
  CASE gift_wrapping = "none" -> 0
    [] gift_wrapping = "standard" -> 300
    [] gift_wrapping = "premium" -> 300
    [] OTHER -> 0

\* WRAPPING_FEES[gift_wrapping] ?? 0
WRAPPING_FEE(gift_wrapping) ==
  CASE gift_wrapping = "none" -> 0
    [] gift_wrapping = "standard" -> 300
    [] gift_wrapping = "premium" -> 600
    [] OTHER -> 0

\* faulty variant of WaTotals: the wrapping fee is left out of the total
WaTotalsNoFee(lineItems, gift_wrapping) ==
  LET subtotalPkr == SumLineTotals(lineItems)
  IN [subtotal |-> subtotalPkr,
      shipping |-> SHIPPING_PKR(subtotalPkr),
      wrapping_fee |-> WRAPPING_FEE(gift_wrapping),
      discount |-> DISCOUNT_PKR,
      total |-> subtotalPkr + SHIPPING_PKR(subtotalPkr) - DISCOUNT_PKR]

WaTotals(lineItems, gift_wrapping) ==
  LET subtotalPkr == SumLineTotals(lineItems)
  IN [subtotal |-> subtotalPkr,
      shipping |-> SHIPPING_PKR(subtotalPkr),
      wrapping_fee |-> WRAPPING_FEE(gift_wrapping),
      discount |-> DISCOUNT_PKR,
      total |-> subtotalPkr + SHIPPING_PKR(subtotalPkr) + WRAPPING_FEE(gift_wrapping)
                - DISCOUNT_PKR]

\* faulty variant of WaOrderRow: a total sent by the client is stored
WaOrderRowClientTotal(id, body, t) ==
  [id |-> id,
   customer_name |-> Trim(body.customer_name),
   customer_phone |-> Trim(body.customer_phone),
   customer_city |-> Trim(body.customer_city),
   customer_address |-> Trim(body.customer_address),
   status |-> "pending_whatsapp",
   payment_method |-> Get(body, "payment_method", "cod"),
   payment_status |-> "pending",
   subtotal |-> t.subtotal, shipping |-> t.shipping, discount |-> t.discount,
   total |-> Get(body, "total", t.total),
   gift_wrapping |-> Get(body, "gift_wrapping", "none"),
   stripe_payment_intent |-> NULL, stripe_charge_id |-> NULLS,
   created_at |-> now, updated_at |-> now]

\* the row INSERT INTO orders ... RETURNING id adds
WaOrderRow(id, body, t) ==
  [id |-> id,
   customer_name |-> Trim(body.customer_name),
   customer_phone |-> Trim(body.customer_phone),
   customer_city |-> Trim(body.customer_city),
   customer_address |-> Trim(body.customer_address),
   status |-> "pending_whatsapp",
   payment_method |-> Get(body, "payment_method", "cod"),
   payment_status |-> "pending",
   subtotal |-> t.subtotal, shipping |-> t.shipping, discount |-> t.discount,
   total |-> t.total,
   gift_wrapping |-> Get(body, "gift_wrapping", "none"),
   stripe_payment_intent |-> NULL, stripe_charge_id |-> NULLS,
   created_at |-> now, updated_at |-> now]

\* the rows the order_items statements add for order orderId
ItemRows(orderId, lineItems) ==
  [i \in DOMAIN lineItems |->
     [order_id |-> orderId,
      product_id |-> lineItems[i].product_id,
      product_name |-> lineItems[i].product_name,
      quantity |-> lineItems[i].quantity,
      unit_price |-> lineItems[i].unit_price,
      line_total |-> lineItems[i].line_total]]

\* db.batch(stmts): one transaction; failAt = 0 when no statement fails, else the
\* index of the statement that fails, which rolls the whole batch back
Batch(rows, stmts, failAt) ==
  IF failAt = 0 THEN rows \o stmts ELSE rows

\* c.json({ order_id, whatsapp_url, whatsapp_message, summary })
WaSuccess(orderId, t) ==
  [status |-> 200, error |-> "", order_id |-> orderId,
   subtotal |-> t.subtotal, shipping |-> t.shipping, discount |-> t.discount,
   wrapping_fee |-> t.wrapping_fee, total |-> t.total,
   free_shipping |-> (t.shipping = 0), client_secret |-> NULL]

\* validation of the body, then the SELECT of the products
WaCheckoutLookup(p, body) ==
  /\ worker = "whatsapp"
  /\ req[p].pc = "idle"
  /\ \A q \in Procs : q < p => req[q].pc # "idle"
  /\ LET err == WaFieldError(body)
         r == [req[p] EXCEPT !.body = body]
     IN req' = [req EXCEPT ![p] =
                  IF err # "" THEN Done(r, jsonError(err, 400))
                  ELSE [r EXCEPT !.pc = "validate",
                                 !.dbProducts = WaSelectProducts(CartOf(body)),
                                 !.lookups = @ + 1]]
  /\ UNCHANGED <<worker, products, orders, order_items, updates, now, intents, hook, put>>

\* faulty variant of WaCheckoutInsertOrder: the order row is inserted before the
\* items are checked
WaCheckoutInsertOrderFirst(p) ==
  /\ worker = "whatsapp"
  /\ req[p].pc = "validate"
  /\ LET r == req[p]
         built == WaBuildLines(CartOf(r.body), r.dbProducts, <<>>)
         t == WaTotals(built.lineItems, Get(r.body, "gift_wrapping", "none"))
         orderId == Len(orders) + 1
     IN /\ orders' = Append(orders, WaOrderRow(orderId, r.body, t))
        /\ req' = [req EXCEPT ![p] =
                     IF built.error # "" THEN Done(r, jsonError(built.error, 422))
                     ELSE [r EXCEPT !.pc = "items", !.lineItems = built.lineItems,
                                    !.totals = t, !.orderId = orderId]]
  /\ UNCHANGED <<worker, products, order_items, updates, now, intents, hook, put>>

\* the loop over the items, the totals, then INSERT INTO orders
WaCheckoutInsertOrder(p) ==
  /\ worker = "whatsapp"
  /\ req[p].pc = "validate"
  /\ LET r == req[p]
         built == WaBuildLines(CartOf(r.body), r.dbProducts, <<>>)
         t == WaTotals(built.lineItems, Get(r.body, "gift_wrapping", "none"))
         orderId == Len(orders) + 1
     IN IF built.error # ""
          THEN /\ req' = [req EXCEPT ![p] = Done(r, jsonError(built.error, 422))]
               /\ UNCHANGED orders
          ELSE /\ orders' = Append(orders, WaOrderRow(orderId, r.body, t))
               /\ req' = [req EXCEPT ![p] =
                            [r EXCEPT !.pc = "items", !.lineItems = built.lineItems,
                                      !.totals = t, !.orderId = orderId]]
  /\ UNCHANGED <<worker, products, order_items, updates, now, intents, hook, put>>

\* faulty variant of WaCheckoutInsertItems: the batch also takes the first line's
\* quantity off the stock of its product
WaCheckoutInsertItemsTakesStock(p) ==
  /\ worker = "whatsapp"
  /\ req[p].pc = "items"
  /\ \E failAt \in 0..Len(req[p].lineItems) :
       LET r == req[p]
           first == r.lineItems[1]
       IN /\ order_items' =
               Batch(order_items, ItemRows(r.orderId, r.lineItems), failAt)
          /\ products' =
               IF failAt = 0
                 THEN [products EXCEPT ![first.product_id].stock = @ - first.quantity]
                 ELSE products
          /\ req' = [req EXCEPT ![p] =
               IF failAt = 0 THEN Done(r, WaSuccess(r.orderId, r.totals))
               ELSE Threw(r, "order_items")]
  /\ UNCHANGED <<worker, orders, updates, now, intents, hook, put>>

\* db.batch of the INSERT INTO order_items statements, then the response
WaCheckoutInsertItems(p) ==
  /\ worker = "whatsapp"
  /\ req[p].pc = "items"
  /\ \E failAt \in 0..Len(req[p].lineItems) :
       LET r == req[p]
       IN /\ order_items' =
               Batch(order_items, ItemRows(r.orderId, r.lineItems), failAt)
          /\ req' = [req EXCEPT ![p] =
               IF failAt = 0 THEN Done(r, WaSuccess(r.orderId, r.totals))
               ELSE Threw(r, "order_items")]
  /\ UNCHANGED <<worker, products, orders, updates, now, intents, hook, put>>

----------------------------------------------------------------------------
(* PUT /api/products/:id, WhatsApp build *)

\* bodies of PUT /api/products/:id; "colour" is not an ALLOWED key
PutBodies ==
  { [price_pkr |-> 6000], [sale_price_pkr |-> 2000], [sale_price_pkr |-> 3000],
    [name |-> "Oud Royale II"], [stock |-> 0], [colour |-> "red"] }

\* UPDATE products SET key = ? for the ALLOWED keys of the body
SetProduct(row, body) ==
  [name |-> Get(body, "name", row.name),
   price |-> Get(body, "price_pkr", row.price),
   sale_price |-> Get(body, "sale_price_pkr", row.sale_price),
   stock |-> Get(body, "stock", row.stock),
   is_active |-> Get(body, "is_active", row.is_active)]

\* faulty variant of PutProduct: the update is carried over to the order items of the product
PutProductCascade(role, id, body) ==
  /\ worker = "whatsapp"
  /\ updates < MaxUpdates
  /\ IF role # "admin"
       \/ DOMAIN body \cap {"name", "price_pkr", "sale_price_pkr", "stock", "is_active"} = {}
     THEN UNCHANGED <<products, updates, order_items>>
     ELSE /\ products' = [i \in DOMAIN products |->
                            IF i = id THEN SetProduct(products[i], body)
                            ELSE products[i]]
          /\ updates' = updates + 1
          /\ order_items' =
               [k \in DOMAIN order_items |->
                  IF order_items[k].product_id = id /\ id \in DOMAIN products
                    THEN [order_items[k] EXCEPT
                            !.product_name = SetProduct(products[id], body).name,
                            !.unit_price = WaUnitPrice(SetProduct(products[id], body))]
                    ELSE order_items[k]]
  /\ UNCHANGED <<worker, orders, req, now, intents, hook, put>>

\* authMiddleware, adminOnly, then the UPDATE; role is the role of the
\* token's payload, "none" when there is no valid token
PutProduct(role, id, body) ==
  /\ worker = "whatsapp"
  /\ updates < MaxUpdates
  /\ IF role # "admin"
       \/ DOMAIN body \cap {"name", "price_pkr", "sale_price_pkr", "stock", "is_active"} = {}
     THEN UNCHANGED <<products, updates>>
     ELSE /\ products' = [i \in DOMAIN products |->
                            IF i = id THEN SetProduct(products[i], body)
                            ELSE products[i]]
          /\ updates' = updates + 1
  /\ UNCHANGED <<worker, orders, order_items, req, now, intents, hook, put>>

----------------------------------------------------------------------------
(* PUT /api/admin/orders/:id, WhatsApp build *)

VALID_STATUS == {"pending_whatsapp", "confirmed", "dispatched", "delivered", "cancelled"}
VALID_PAYMENT == {"pending", "paid", "refunded"}

\* bodies of PUT /api/admin/orders/:id
PutOrderBodies ==
  { [status |-> "delivered"], [status |-> "confirmed"], [payment_status |-> "paid"],
    [status |-> "shipped", payment_status |-> "paid"],
    [status |-> "confirmed", payment_status |-> "unpaid"],
    [status |-> ""] }

\* body.f is truthy: present and not the empty string
Truthy(body, f) == Has(body, f) /\ body[f] # ""

\* the two checks of the body: the error of the first that fails, "" when both pass
PutOrderError(body) ==
  IF Truthy(body, "status") /\ body.status \notin VALID_STATUS
    THEN "Invalid status value"
  ELSE IF Truthy(body, "payment_status") /\ body.payment_status \notin VALID_PAYMENT
    THEN "Invalid payment_status value"
  ELSE ""

\* faulty variant of SetOrder: the UPDATE also resets the order's total
SetOrderResetsTotal(rows, id, body, at) ==
  [i \in DOMAIN rows |->
     IF rows[i].id = id
       THEN [rows[i] EXCEPT
               !.updated_at = at,
               !.total = 0,
               !.status = IF Truthy(body, "status") THEN body.status ELSE @,
               !.payment_status =
                 IF Truthy(body, "payment_status") THEN body.payment_status ELSE @]
       ELSE rows[i]]

\* UPDATE orders SET updated_at = datetime('now') [, status = ?] [, payment_status = ?]
\* WHERE id = ?
SetOrder(rows, id, body, at) ==
  [i \in DOMAIN rows |->
     IF rows[i].id = id
       THEN [rows[i] EXCEPT
               !.updated_at = at,
               !.status = IF Truthy(body, "status") THEN body.status ELSE @,
               !.payment_status =
                 IF Truthy(body, "payment_status") THEN body.payment_status ELSE @]
       ELSE rows[i]]

\* faulty variant of PutOrderResp: adminOnly is missing from the route
PutOrderRespAnyUser(role, body) ==
  IF role = "none" THEN jsonError("Unauthorised", 401)
  ELSE IF PutOrderError(body) # "" THEN jsonError(PutOrderError(body), 400)
  ELSE Resp(200, "")

\* the answer of the route: authMiddleware, adminOnly, the checks of the body,
\* then c.json({ success: true, order_id: id })
PutOrderResp(role, body) ==
  IF role = "none" THEN jsonError("Unauthorised", 401)
  ELSE IF role # "admin" THEN jsonError("Forbidden", 403)
  ELSE IF PutOrderError(body) # "" THEN jsonError(PutOrderError(body), 400)
  ELSE Resp(200, "")

\* role is the role of the token's payload, "none" when there is no valid token
PutOrder(role, id, body) ==
  /\ worker = "whatsapp"
  /\ updates < MaxUpdates
  /\ updates' = updates + 1
  /\ put' = [status |-> PutOrderResp(role, body).status,
             error |-> PutOrderResp(role, body).error,
             outside |-> \/ Has(body, "status") /\ body.status \notin VALID_STATUS
                         \/ /\ Has(body, "payment_status")
                            /\ body.payment_status \notin VALID_PAYMENT,
             missing |-> \A i \in DOMAIN orders : orders[i].id # id]
  /\ orders' = IF PutOrderResp(role, body).status = 200
                 THEN SetOrder(orders, id, body, now)
                 ELSE orders
  /\ UNCHANGED <<worker, products, order_items, req, now, intents, hook>>

----------------------------------------------------------------------------
(* POST /api/checkout, Stripe build *)

\* SELECT id, price, stock FROM products WHERE id IN (...) AND is_active = 1
StSelectProducts(items) ==
  LET productIds == {items[i].product_id : i \in DOMAIN items}
  IN [id \in {j \in productIds \cap DOMAIN products : products[j].is_active = 1}
        |-> products[id]]

\* Math.round(product.price * 100)
UnitCents(price) == price * 100

\* product.stock < item.quantity is the rejection; this is its negation
StInStock(product, quantity) == ~(product.stock < quantity)

\* the loop over items: the first error, or the line items
RECURSIVE StBuildLines(_, _, _)
StBuildLines(items, dbProducts, acc) ==
  IF items = <<>> THEN [error |-> "", lineItems |-> acc]
  ELSE
    LET item == Head(items)
    IN IF item.product_id \notin DOMAIN dbProducts
         THEN [error |-> "Product not found", lineItems |-> <<>>]
       ELSE LET product == dbProducts[item.product_id]
                unitCents == UnitCents(product.price)
            IN IF ~StInStock(product, item.quantity)
                 THEN [error |-> "Insufficient stock for product", lineItems |-> <<>>]
               ELSE StBuildLines(Tail(items), dbProducts,
                      Append(acc, [product_id |-> item.product_id,
                                   product_name |-> NULLS,
                                   quantity |-> item.quantity,
                                   unit_price |-> unitCents,
                                   line_total |-> NULL]))

\* products.length !== items.length, then the loop
StValidate(items, dbProducts) ==
  IF Cardinality(DOMAIN dbProducts) # Len(items)
    THEN [error |-> "One or more products not found or inactive", lineItems |-> <<>>]
    ELSE StBuildLines(items, dbProducts, <<>>)

\* subtotalCents += unitCents * item.quantity
RECURSIVE StSubtotal(_)
StSubtotal(lineItems) ==
  IF lineItems = <<>> THEN 0
  ELSE Head(lineItems).unit_price * Head(lineItems).quantity
       + StSubtotal(Tail(lineItems))

\* subtotalCents, and totalCents = subtotalCents; tax_cents and shipping_cents
\* keep the columns' default 0
StTotals(lineItems) ==
  LET subtotalCents == StSubtotal(lineItems)
  IN [subtotal |-> subtotalCents, shipping |-> 0, wrapping_fee |-> 0,
      discount |-> 0, total |-> subtotalCents]

ST_WRAPPING == {"emerald_box", "wooden_chest", "none"}

\* the row INSERT INTO orders ... RETURNING id adds
StOrderRow(id, body, t) ==
  [id |-> id,
   customer_name |-> NULLS, customer_phone |-> NULLS, customer_city |-> NULLS,
   customer_address |-> NULLS,
   status |-> "pending",
   payment_method |-> NULLS,
   payment_status |-> NULLS,
   subtotal |-> t.subtotal, shipping |-> t.shipping, discount |-> t.discount,
   total |-> t.total,
   gift_wrapping |-> Get(body, "gift_wrapping", "none"),
   stripe_payment_intent |-> NULL, stripe_charge_id |-> NULLS,
   created_at |-> now, updated_at |-> now]

\* the rows the order_items statements add for order orderId (the table of this
\* build has no product_name and no line_total column)
StItemRows(orderId, lineItems) ==
  [i \in DOMAIN lineItems |->
     [order_id |-> orderId,
      product_id |-> lineItems[i].product_id,
      product_name |-> NULLS,
      quantity |-> lineItems[i].quantity,
      unit_price |-> lineItems[i].unit_price,
      line_total |-> NULL]]

\* c.json({ client_secret, order_id })
StSuccess(orderId, paymentIntent) ==
  [Resp(200, "") EXCEPT !.order_id = orderId, !.client_secret = paymentIntent]

\* authMiddleware, the empty-cart check, then the SELECT of the products
StCheckoutLookup(p, body) ==
  /\ worker = "stripe"
  /\ req[p].pc = "idle"
  /\ \A q \in Procs : q < p => req[q].pc # "idle"
  /\ LET r == [req[p] EXCEPT !.body = body]
     IN req' = [req EXCEPT ![p] =
                  IF ~Has(body, "Authorization") THEN Done(r, jsonError("Unauthorised", 401))
                  ELSE IF ~Has(body, "items") \/ Len(body.items) = 0
                    THEN Done(r, jsonError("Cart is empty", 400))
                  ELSE [r EXCEPT !.pc = "validate",
                                 !.dbProducts = StSelectProducts(CartOf(body)),
                                 !.lookups = @ + 1]]
  /\ UNCHANGED <<worker, products, orders, order_items, updates, now, intents, hook, put>>

\* the checks of the items, the totals, then INSERT INTO orders (which the CHECK
\* constraint on gift_wrapping makes fail for an unknown value)
StCheckoutInsertOrder(p) ==
  /\ worker = "stripe"
  /\ req[p].pc = "validate"
  /\ LET r == req[p]
         built == StValidate(CartOf(r.body), r.dbProducts)
         t == StTotals(built.lineItems)
         orderId == Len(orders) + 1
     IN IF built.error # ""
          THEN /\ req' = [req EXCEPT ![p] = Done(r, jsonError(built.error, 422))]
               /\ UNCHANGED orders
        ELSE IF Get(r.body, "gift_wrapping", "none") \notin ST_WRAPPING
          THEN /\ req' = [req EXCEPT ![p] = Threw(r, "orders")]
               /\ UNCHANGED orders
        ELSE /\ orders' = Append(orders, StOrderRow(orderId, r.body, t))
             /\ req' = [req EXCEPT ![p] =
                          [r EXCEPT !.pc = "items", !.lineItems = built.lineItems,
                                    !.totals = t, !.orderId = orderId]]
  /\ UNCHANGED <<worker, products, order_items, updates, now, intents, hook, put>>

\* db.batch of the INSERT INTO order_items statements
StCheckoutInsertItems(p) ==
  /\ worker = "stripe"
  /\ req[p].pc = "items"
  /\ \E failAt \in 0..Len(req[p].lineItems) :
       LET r == req[p]
       IN /\ order_items' =
               Batch(order_items, StItemRows(r.orderId, r.lineItems), failAt)
          /\ req' = [req EXCEPT ![p] =
               IF failAt = 0 THEN [r EXCEPT !.pc = "intent"]
               ELSE Threw(r, "order_items")]
  /\ UNCHANGED <<worker, products, orders, updates, now, intents, hook, put>>

\* stripe.paymentIntents.create: Stripe issues a fresh intent id, or the call fails
StCheckoutCreateIntent(p) ==
  /\ worker = "stripe"
  /\ req[p].pc = "intent"
  /\ \E ok \in BOOLEAN :
       IF ok
         THEN /\ intents' = intents + 1
              /\ req' = [req EXCEPT ![p].pc = "store", ![p].paymentIntent = intents + 1]
         ELSE /\ req' = [req EXCEPT ![p] = Threw(req[p], "paymentIntents")]
              /\ UNCHANGED intents
  /\ UNCHANGED <<worker, products, orders, order_items, updates, now, hook, put>>

\* faulty variant of SetPaymentIntent: the UPDATE has lost its WHERE clause
SetPaymentIntentEveryRow(rows, paymentIntent, orderId) ==
  [i \in DOMAIN rows |-> [rows[i] EXCEPT !.stripe_payment_intent = paymentIntent]]

\* UPDATE orders SET stripe_payment_intent = ? WHERE id = ?
SetPaymentIntent(rows, paymentIntent, orderId) ==
  [i \in DOMAIN rows |->
     IF rows[i].id = orderId
       THEN [rows[i] EXCEPT !.stripe_payment_intent = paymentIntent]
       ELSE rows[i]]

\* faulty variant of StCheckoutStoreIntent: the response is sent without the
\* intent id having been stored
StCheckoutAnswersUnstored(p) ==
  /\ worker = "stripe"
  /\ req[p].pc = "store"
  /\ req' = [req EXCEPT ![p] =
               Done(req[p], StSuccess(req[p].orderId, req[p].paymentIntent))]
  /\ UNCHANGED <<worker, products, orders, order_items, updates, now, intents, hook, put>>

\* the UPDATE that stores the intent id, then the response
StCheckoutStoreIntent(p) ==
  /\ worker = "stripe"
  /\ req[p].pc = "store"
  /\ orders' = SetPaymentIntent(orders, req[p].paymentIntent, req[p].orderId)
  /\ req' = [req EXCEPT ![p] =
               Done(req[p], StSuccess(req[p].orderId, req[p].paymentIntent))]
  /\ UNCHANGED <<worker, products, order_items, updates, now, intents, hook, put>>

----------------------------------------------------------------------------
(* POST /api/checkout/webhook, Stripe build *)

\* pi.latest_charge ?? ''
Charge(pi) == IF pi.latest_charge = NULLS THEN "" ELSE pi.latest_charge

\* faulty variant of MarkPaid: the row is selected by the order id of the metadata
MarkPaidByOrderId(rows, pi, at) ==
  [i \in DOMAIN rows |->
     IF rows[i].id = pi.order_id
       THEN [rows[i] EXCEPT !.status = "paid",
                            !.stripe_charge_id = Charge(pi),
                            !.updated_at = at]
       ELSE rows[i]]

\* faulty variant of MarkPaid: the UPDATE has lost its WHERE clause
MarkPaidEveryRow(rows, pi, at) ==
  [i \in DOMAIN rows |->
     [rows[i] EXCEPT !.status = "paid", !.stripe_charge_id = Charge(pi),
                     !.updated_at = at]]

\* UPDATE orders SET status = 'paid', stripe_charge_id = ?, updated_at = datetime('now')
\* WHERE stripe_payment_intent = ?
MarkPaid(rows, pi, at) ==
  [i \in DOMAIN rows |->
     IF rows[i].stripe_payment_intent = pi.id
       THEN [rows[i] EXCEPT !.status = "paid",
                            !.stripe_charge_id = Charge(pi),
                            !.updated_at = at]
       ELSE rows[i]]

\* faulty variant of WebhookRows: the signature is not verified
WebhookRowsUnverified(rows, event, at) ==
  IF event.type = "payment_intent.succeeded" THEN MarkPaid(rows, event, at)
  ELSE rows

\* faulty variant of WebhookRows: every verified event marks its order paid
WebhookRowsAnyType(rows, event, at) ==
  IF ~event.signed THEN rows
  ELSE MarkPaid(rows, event, at)

\* the orders table after the handler has run on event, and the status it answers
WebhookRows(rows, event, at) ==
  IF ~event.signed THEN rows
  ELSE IF event.type = "payment_intent.succeeded" THEN MarkPaid(rows, event, at)
  ELSE rows

WebhookStatus(event) == IF ~event.signed THEN 400 ELSE 200

\* the number of UPDATE statements the handler sends to the store for event
WebhookStatements(event) ==
  IF event.signed /\ event.type = "payment_intent.succeeded" THEN 1 ELSE 0

Webhook(event) ==
  /\ worker = "stripe"
  /\ orders' = WebhookRows(orders, event, now)
  /\ hook' = [status |-> WebhookStatus(event),
              statements |-> WebhookStatements(event),
              matched |-> IF WebhookStatements(event) = 0 THEN 0
                          ELSE Cardinality({i \in DOMAIN orders :
                                 orders[i].stripe_payment_intent = event.id}),
              replay |-> /\ event.signed
                         /\ event.type = "payment_intent.succeeded"
                         /\ \E i \in DOMAIN orders :
                              /\ orders[i].stripe_payment_intent = event.id
                              /\ orders[i].status = "paid"
                              /\ orders[i].stripe_charge_id = Charge(event)]
  /\ UNCHANGED <<worker, products, order_items, req, updates, now, intents, put>>

----------------------------------------------------------------------------
\* time passes.  datetime('now') is read only by the statements that write an
\* orders row, so the clock starts with the first row: before it, the passing
\* of time shows in no later state
Tick ==
  /\ now < MaxClock
  /\ orders # <<>>
  /\ now' = now + 1
  /\ UNCHANGED <<worker, products, orders, order_items, req, updates, intents, hook, put>>

Next ==
  \/ Tick
  \/ \E p \in Procs, body \in WaBodies : WaCheckoutLookup(p, body)
  \/ \E p \in Procs : WaCheckoutInsertOrder(p)
  \/ \E p \in Procs : WaCheckoutInsertItems(p)
  \/ \E role \in {"admin", "customer", "none"}, id \in {1, 4},
        body \in PutBodies : PutProduct(role, id, body)
  \/ \E role \in {"admin", "customer", "none"}, id \in {1, 3},
        body \in PutOrderBodies : PutOrder(role, id, body)
  \/ \E p \in Procs, body \in StBodies : StCheckoutLookup(p, body)
  \/ \E p \in Procs : StCheckoutInsertOrder(p)
  \/ \E p \in Procs : StCheckoutInsertItems(p)
  \/ \E p \in Procs : StCheckoutCreateIntent(p)
  \/ \E p \in Procs : StCheckoutStoreIntent(p)
  \/ \E event \in Events : Webhook(event)

Spec == Init /\ [][Next]_vars

----------------------------------------------------------------------------
(* Properties *)

\* the order_items rows of order orderId
ItemRowsOf(orderId) == SelectSeq(order_items, LAMBDA r : r.order_id = orderId)

\* the orders table holds a row with this id
HasOrder(orderId) == \E i \in DOMAIN orders : orders[i].id = orderId

\* quantity sold of product id: the sum over the order_items rows
RECURSIVE SumQty(_, _)
SumQty(rows, id) ==
  IF rows = <<>> THEN 0
  ELSE (IF Head(rows).product_id = id THEN Head(rows).quantity ELSE 0)
       + SumQty(Tail(rows), id)

\* the rows the checkout of the deployed build writes for its line items
BuiltRows(orderId, lineItems) ==
  IF worker = "whatsapp" THEN ItemRows(orderId, lineItems)
  ELSE StItemRows(orderId, lineItems)

\* the request was answered with a success
Accepted(p) == req[p].pc = "done" /\ req[p].resp.status = 200

InsufficientStockErrors == {"only N left in stock", "Insufficient stock for product"}

\* C1: order creation is all-or-nothing: when the insert of an order_items row
\* fails, then after the request has ended the store holds neither the order
\* header row nor any order_items row of that attempt.
C1_OrderCreationAtomic ==
  \A p \in Procs :
    (req[p].pc = "done" /\ req[p].fault = "order_items")
      => /\ ~HasOrder(req[p].orderId)
         /\ ItemRowsOf(req[p].orderId) = <<>>

\* C2: of N >= 2 checkouts that each ask for quantity Q of the same product, whose
\* stock is Q, exactly one is accepted and the others are rejected for
\* insufficient stock (product 1 has stock 2; no call of the requests threw).
C2_ExactlyOneCheckoutSucceeds ==
  (/\ updates = 0
   /\ \A p \in Procs : /\ req[p].pc = "done"
                       /\ CartOf(req[p].body) = <<Line(1, 2)>>
                       /\ req[p].fault = "")
    => /\ Cardinality({p \in Procs : req[p].resp.status = 200}) = 1
       /\ \A p \in Procs :
            req[p].resp.status # 200
              => /\ req[p].resp.status = 422
                 /\ req[p].resp.error \in InsufficientStockErrors

\* C3: stock never goes negative: with no restocking, for every product the
\* quantity of all persisted order items never exceeds the stock it started with.
C3_StockNeverNegative ==
  updates = 0
    => \A id \in ProductIds :
         SeedProducts(worker)[id].stock - SumQty(order_items, id) >= 0

\* C10: in every reachable state every order header row has its complete set of
\* order_items rows: the rows of the line items its checkout built.
C10_OrderAndItemsTogether ==
  \A p \in Procs :
    req[p].orderId # NULL
      => /\ HasOrder(req[p].orderId)
         /\ ItemRowsOf(req[p].orderId) = BuiltRows(req[p].orderId, req[p].lineItems)

\* an orders table without the updated_at column
Settled(rows) == [i \in DOMAIN rows |-> [rows[i] EXCEPT !.updated_at = 0]]

Surcharge(option) ==
  IF worker # "whatsapp" THEN 0
  ELSE IF option = "standard" THEN 300
  ELSE IF option = "premium" THEN 600
  ELSE 0

\* sum of unit price times quantity over order_items rows
RECURSIVE SumRows(_)
SumRows(rows) ==
  IF rows = <<>> THEN 0
  ELSE Head(rows).unit_price * Head(rows).quantity + SumRows(Tail(rows))

\* C5: for every accepted cart the total stored on the order, and the total of the
\* response, is subtotal + shipping_fee + surcharge - discount, the subtotal being
\* the sum of the line totals of the order's items and the surcharge the fee of
\* the selected gift-wrapping option.
C5_TotalIsSumOfParts ==
  \A p \in Procs :
    req[p].orderId # NULL
      => LET o == orders[req[p].orderId]
             r == req[p].resp
         IN /\ o.total = o.subtotal + o.shipping + Surcharge(o.gift_wrapping) - o.discount
            /\ ItemRowsOf(o.id) # <<>> => o.subtotal = SumRows(ItemRowsOf(o.id))
            /\ Accepted(p)
                 => /\ o.subtotal = SumRows(ItemRowsOf(o.id))
                    /\ r.order_id = o.id
                    /\ worker = "whatsapp"
                         => /\ r.total = r.subtotal + r.shipping + r.wrapping_fee - r.discount
                            /\ r.wrapping_fee = Surcharge(o.gift_wrapping)
                            /\ r.total = o.total /\ r.subtotal = o.subtotal
                            /\ r.shipping = o.shipping /\ r.discount = o.discount

\* C5 witness: an accepted cart of 4999 with delivery 200 and the premium box 600.
C5_Witness ==
  \E p \in Procs :
    /\ Accepted(p)
    /\ req[p].resp.subtotal = 4999 /\ req[p].resp.shipping = 200
    /\ req[p].resp.wrapping_fee = 600 /\ req[p].resp.total = 5799
    /\ orders[req[p].orderId].total = 5799

OverStock(p, i) ==
  LET item == CartOf(req[p].body)[i]
  IN /\ item.product_id \in DOMAIN req[p].dbProducts
     /\ Has(item, "quantity")
     /\ item.quantity > req[p].dbProducts[item.product_id].stock

\* every line of the cart names a product that exists and is active (and, in the
\* Stripe build, no product is listed twice): a stock shortage is its only defect
OnlyStockDefect(p) ==
  LET items == CartOf(req[p].body)
  IN /\ \A j \in DOMAIN items :
          /\ items[j].product_id \in DOMAIN req[p].dbProducts
          /\ req[p].dbProducts[items[j].product_id].is_active = 1
     /\ worker = "stripe"
          => Cardinality({items[j].product_id : j \in DOMAIN items}) = Len(items)

\* every row of orders and order_items belongs to the request that holds its id
RowsAccounted ==
  /\ \A i \in DOMAIN orders :
       Cardinality({q \in Procs : req[q].orderId = orders[i].id}) = 1
  /\ \A k \in DOMAIN order_items :
       \E q \in Procs : req[q].orderId = order_items[k].order_id

\* C7: a checkout whose cart has a line, at any position, with a quantity greater
\* than the stock of its product is rejected with 422, as insufficient stock when
\* that is the cart's only defect, and no orders row and no order_items row is
\* created by it.
C7_OverStockRejected ==
  /\ RowsAccounted
  /\ \A p \in Procs :
       (/\ req[p].pc = "done"
        /\ req[p].lookups > 0
        /\ \E i \in DOMAIN CartOf(req[p].body) : OverStock(p, i))
         => /\ req[p].resp.status = 422
            /\ req[p].orderId = NULL
            /\ OnlyStockDefect(p) => req[p].resp.error \in InsufficientStockErrors

\* C7 witness: two rejected carts, the offending line first in one and last in
\* the other.
C7_Witness ==
  \E p, q \in Procs :
    /\ req[p].pc = "done" /\ CartOf(req[p].body) = <<Line(2, 2), Line(1, 1)>>
    /\ req[q].pc = "done" /\ CartOf(req[q].body) = <<Line(1, 1), Line(2, 2)>>
    /\ req[p].resp.status = 422 /\ req[q].resp.status = 422
    /\ req[p].resp.error \in InsufficientStockErrors
    /\ req[q].resp.error \in InsufficientStockErrors
    /\ orders = <<>> /\ order_items = <<>>

\* the checks that come before the empty-cart check pass
BeforeCartCheckOk(p) ==
  IF worker = "whatsapp"
    THEN \A f \in {"customer_name", "customer_phone", "customer_city",
                   "customer_address"} : ~Blank(req[p].body, f)
    ELSE Has(req[p].body, "Authorization")

\* C8: a checkout whose items array is empty or absent is rejected, with the
\* empty-cart error when the checks made before it pass, before any product lookup
\* is sent to the store and without creating a row.
C8_EmptyCartRejected ==
  \A p \in Procs :
    (req[p].pc # "idle" /\ CartOf(req[p].body) = <<>>)
      => /\ req[p].pc = "done"
         /\ req[p].resp.status \in {400, 401}
         /\ req[p].lookups = 0
         /\ req[p].orderId = NULL
         /\ BeforeCartCheckOk(p)
              => req[p].resp.status = 400 /\ req[p].resp.error = "Cart is empty"

\* C8 witness: one request with an empty items array and one with no items at
\* all have both been answered with the empty-cart error.
C8_Witness ==
  \E p, q \in Procs :
    /\ req[p].pc = "done" /\ Has(req[p].body, "items") /\ req[p].body.items = <<>>
    /\ req[q].pc = "done" /\ ~Has(req[q].body, "items")
    /\ req[p].resp.error = "Cart is empty" /\ req[q].resp.error = "Cart is empty"
    /\ req[p].lookups = 0 /\ req[q].lookups = 0
    /\ orders = <<>>

\* C9: the price snapshot is immutable: whatever PUT /api/products/:id does to a
\* product afterwards, the order_items rows of an order are the rows its checkout
\* built (product name, unit price, line total) and the order's subtotal and total
\* are the ones its checkout computed.
C9_PriceSnapshotImmutable ==
  \A p \in Procs :
    req[p].orderId # NULL
      => /\ ItemRowsOf(req[p].orderId)
              \in {<<>>, BuiltRows(req[p].orderId, req[p].lineItems)}
         /\ orders[req[p].orderId].subtotal = req[p].totals.subtotal
         /\ orders[req[p].orderId].total = req[p].totals.total
         /\ \A i \in DOMAIN req[p].lineItems :
              LET li == req[p].lineItems[i]
                  found == req[p].dbProducts[li.product_id]
              IN IF worker = "whatsapp"
                   THEN /\ li.product_name = found.name
                        /\ li.unit_price = WaUnitPrice(found)
                   ELSE li.unit_price = UnitCents(found.price)

\* C9 witness: the catalog row of product 1 has been given another price or name
\* while an order item of product 1 keeps the old ones.
C9_Witness ==
  /\ updates = 1
  /\ \E k \in DOMAIN order_items :
       /\ order_items[k].product_id = 1
       /\ order_items[k].unit_price = 2500
       /\ order_items[k].product_name = "Oud Royale"
       /\ \/ products[1].price = 6000
          \/ products[1].sale_price = 2000
          \/ products[1].name = "Oud Royale II"

\* the statuses of a validation error: 400 for the body's fields and the empty
\* cart, 422 for a product that is missing, inactive or short of stock
ValidationStatuses == {400, 422}

\* C11: validation failures are detected before the first write: the step in which
\* a checkout answers with a validation error changes neither orders nor
\* order_items, and the request has written no order before it (its orderId,
\* which the INSERT INTO orders sets, is still unset).
C11_ValidationBeforeWrite ==
  [][\A p \in Procs :
       (/\ req[p].pc # "done"
        /\ req'[p].pc = "done"
        /\ req'[p].resp.status \in ValidationStatuses)
         => /\ orders' = orders
            /\ order_items' = order_items
            /\ req[p].orderId = NULL
            /\ req'[p].orderId = NULL]_vars

\* C11 witness: beside an accepted order stands a request that was rejected for an
\* inactive product, and the tables hold the accepted order only.
C11_Witness ==
  \E p, q \in Procs :
    /\ Accepted(p)
    /\ req[q].pc = "done" /\ req[q].resp.status = 422
    /\ CartOf(req[q].body) = <<Line(3, 1)>>
    /\ Len(orders) = 1
    /\ Len(order_items) = Len(req[p].lineItems)

\* the effective price of a product: its sale price when there is one and it is
\* strictly lower than the list price, else the list price
EffectivePrice(product) ==
  IF product.sale_price # NULL /\ product.sale_price < product.price
    THEN product.sale_price
    ELSE product.price

\* C12: the unit price of every cart line the WhatsApp checkout builds is the
\* effective price of the product row its lookup returned.
C12_UnitPriceIsEffectivePrice ==
  worker = "whatsapp"
    => \A p \in Procs :
         \A i \in DOMAIN req[p].lineItems :
           LET li == req[p].lineItems[i]
           IN li.unit_price = EffectivePrice(req[p].dbProducts[li.product_id])

\* the quantity a cart line stands for: the positive integer it gives (as a number
\* or in digits), and 1 when it gives none
CoercedQuantity(item) ==
  IF Has(item, "quantity") /\ item.quantity >= 1 THEN item.quantity
  ELSE IF Has(item, "quantity_text") /\ item.quantity_text = "2" THEN 2
  ELSE 1

C14_OrderItemInvariants ==
  /\ \A k \in DOMAIN order_items :
       /\ order_items[k].quantity >= 1
       /\ worker = "whatsapp"
            => order_items[k].line_total
                 = order_items[k].unit_price * order_items[k].quantity
  /\ \A i \in DOMAIN orders : orders[i].subtotal > 0

\* on the orders of this state no unverified event has an effect, and the last
\* delivery, if it was answered 400, sent no statement
UnverifiedNotApplied ==
  /\ \A event \in Events, t \in 0..MaxClock :
       ~event.signed
         => /\ WebhookStatus(event) = 400
            /\ WebhookStatements(event) = 0
            /\ WebhookRows(orders, event, t) = orders
  /\ hook.status = 400 => (hook.statements = 0 /\ hook.matched = 0)

\* C15: a webhook request whose signature does not verify is answered 400 and is
\* not applied: whatever its type and intent id, and whatever the orders are, the
\* handler sends no UPDATE and the delivery leaves every order row as it is.
C15_UnverifiedWebhookRejected ==
  /\ []UnverifiedNotApplied
  /\ [][(hook' # hook /\ hook'.status = 400) => orders' = orders]_vars

\* C15 witness: an unverified delivery for intent 1 was answered 400 while the
\* order of intent 1 was stored, and the order is still pending.
C15_Witness ==
  /\ hook.status = 400
  /\ \E i \in DOMAIN orders :
       orders[i].stripe_payment_intent = 1 /\ orders[i].status = "pending"

\* no order row holds this intent id
Unmatched(id) == \A i \in DOMAIN orders : orders[i].stripe_payment_intent # id

\* C16: a verified event of a type other than payment_intent.succeeded, or a
\* verified payment_intent.succeeded whose intent id matches no stored order, is
\* acknowledged with 200 and leaves every order row unchanged.
C16_UnmatchedEventAcknowledged ==
  /\ \A event \in Events, t \in 0..MaxClock :
       (/\ event.signed
        /\ \/ event.type # "payment_intent.succeeded"
           \/ Unmatched(event.id))
         => /\ WebhookStatus(event) = 200
            /\ WebhookRows(orders, event, t) = orders
  /\ hook.statements = 0 => hook.matched = 0
  /\ hook.statements > 0 => hook.status = 200

\* C16 witness: a verified delivery that matched no row was answered 200 while an
\* order with a stored intent was waiting for its payment.
C16_Witness ==
  /\ hook.status = 200
  /\ hook.matched = 0
  /\ \E i \in DOMAIN orders :
       orders[i].stripe_payment_intent # NULL /\ orders[i].status = "pending"

\* the order lifecycle: pending* -> confirmed -> dispatched -> delivered, and
\* cancelled from a state before delivered
PendingStates == {"pending_whatsapp", "pending"}

Transition(from, to) ==
  \/ from \in PendingStates /\ to = "confirmed"
  \/ from = "confirmed" /\ to = "dispatched"
  \/ from = "dispatched" /\ to = "delivered"
  \/ from \in PendingStates \cup {"confirmed", "dispatched"} /\ to = "cancelled"

\* C17: an order starts in its channel's pending state, and every step that
\* changes the status of an order is a transition of the lifecycle: none goes
\* backwards, skips a state, or leaves delivered or cancelled.
C17_StatusStateMachine ==
  [][\A i \in DOMAIN orders' :
       IF i \in DOMAIN orders
         THEN \/ orders'[i].status = orders[i].status
              \/ Transition(orders[i].status, orders'[i].status)
         ELSE orders'[i].status
                = (IF worker = "whatsapp" THEN "pending_whatsapp" ELSE "pending")]_vars

InvalidValueErrors == {"Invalid status value", "Invalid payment_status value"}

\* C18: a PUT /api/admin/orders/:id that carries a status outside
\* {pending_whatsapp, confirmed, dispatched, delivered, cancelled} or a
\* payment_status outside {pending, paid, refunded} is refused (with the
\* invalid-value error when the caller is an admin) and changes no order, also
\* when the other field of the request is valid.
C18_InvalidStatusRejected ==
  [][(put' # put /\ put'.outside)
       => /\ put'.status \in {400, 401, 403}
          /\ put'.status = 400 => put'.error \in InvalidValueErrors
          /\ orders' = orders]_vars

\* C19: when stripe.paymentIntents.create fails during the Stripe checkout, the
\* checkout fails closed: after the request has ended the store holds neither
\* the order header row nor any order_items row of that attempt.
C19_IntentFailureFailsClosed ==
  \A p \in Procs :
    (req[p].pc = "done" /\ req[p].fault = "paymentIntents")
      => /\ ~HasOrder(req[p].orderId)
         /\ ItemRowsOf(req[p].orderId) = <<>>

\* the price and total fields a client may add to a cart line or to the body
PriceFields ==
  {"price", "unit_price", "line_total", "subtotal", "shipping", "total"}

\* a body without the client's price and total fields
WithoutPrices(body) ==
  [f \in DOMAIN body \ PriceFields |->
     IF f = "items"
       THEN [i \in DOMAIN body.items |->
               [g \in DOMAIN body.items[i] \ PriceFields |-> body.items[i][g]]]
       ELSE body[f]]

\* what the checkout of the deployed build computes from a body and the product
\* rows of a lookup: the line items and the totals
Priced(body, dbProducts) ==
  IF worker = "whatsapp"
    THEN LET built == WaBuildLines(CartOf(body), dbProducts, <<>>)
         IN [lineItems |-> built.lineItems,
             totals |-> WaTotals(built.lineItems, Get(body, "gift_wrapping", "none"))]
    ELSE LET built == StValidate(CartOf(body), dbProducts)
         IN [lineItems |-> built.lineItems, totals |-> StTotals(built.lineItems)]

\* C20: client-supplied prices are discarded: the unit prices, line totals,
\* subtotal, shipping fee and total of an order are those the checkout computes
\* for the same body without its price and total fields on the same product
\* rows, and two requests whose bodies differ in such fields only, served from
\* the same product rows, get the same ones.
C20_ClientPricesDiscarded ==
  /\ \A p \in Procs :
       req[p].orderId # NULL
         => LET plain == Priced(WithoutPrices(req[p].body), req[p].dbProducts)
                row == orders[req[p].orderId]
            IN /\ req[p].lineItems = plain.lineItems
               /\ req[p].totals = plain.totals
               /\ row.subtotal = plain.totals.subtotal
               /\ row.shipping = plain.totals.shipping
               /\ row.total = plain.totals.total
               /\ ItemRowsOf(req[p].orderId)
                    \in {<<>>, BuiltRows(req[p].orderId, plain.lineItems)}
  /\ \A p, q \in Procs :
       (/\ req[p].orderId # NULL /\ req[q].orderId # NULL
        /\ WithoutPrices(req[p].body) = WithoutPrices(req[q].body)
        /\ req[p].dbProducts = req[q].dbProducts)
         => /\ req[p].lineItems = req[q].lineItems
            /\ req[p].totals = req[q].totals

\* C20 witness: a request whose cart line and body carried prices of 1 and the
\* same request without them have both been accepted, with the same totals, and
\* the order and order item of the first carry the catalog's price.
C20_Witness ==
  \E p, q \in Procs :
    /\ Accepted(p) /\ Accepted(q)
    /\ req[q].body # req[p].body
    /\ WithoutPrices(req[q].body) = WithoutPrices(req[p].body)
    /\ req[q].totals = req[p].totals
    /\ Has(req[p].body, "total") /\ req[p].body.total = 1
    /\ req[p].body.items[1].unit_price = 1
    /\ orders[req[p].orderId].total > 1
    /\ orders[req[p].orderId].total = req[p].totals.total
    /\ \E k \in DOMAIN order_items :
         /\ order_items[k].order_id = req[p].orderId
         /\ order_items[k].unit_price = req[p].lineItems[1].unit_price
         /\ order_items[k].unit_price > 1

\* an order row with the columns in cols blanked
Without(row, cols) ==
  [f \in DOMAIN row |-> IF f \in cols THEN "-" ELSE row[f]]

\* every row of order_items is in the next state what it is in this one
ItemsKept ==
  \A k \in DOMAIN order_items :
    k \in DOMAIN order_items' /\ order_items'[k] = order_items[k]

\* every order of this state is there in the next, and the same but for the
\* columns in cols; its intent id may also go from NULL to a value, which is
\* the last write of its own checkout
OrdersKeptBut(cols) ==
  \A i \in DOMAIN orders :
    /\ i \in DOMAIN orders'
    /\ Without(orders'[i], cols \cup {"stripe_payment_intent"})
         = Without(orders[i], cols \cup {"stripe_payment_intent"})
    /\ \/ orders'[i].stripe_payment_intent = orders[i].stripe_payment_intent
       \/ orders[i].stripe_payment_intent = NULL

\* C21 as stated: once an order is created, status and payment_status are the
\* only columns of its row that any step changes (customer and monetary columns,
\* settlement reference and both timestamps keep their values), and no step
\* changes or deletes an order item.
C21_OnlyStatusFieldsChange ==
  [][OrdersKeptBut({"status", "payment_status"}) /\ ItemsKept]_vars

\* C21, amended: once an order is created, status, payment_status, the settlement
\* reference stripe_charge_id and updated_at are the only columns of its row that
\* any step changes; customer and monetary columns and created_at keep their
\* values, and no step changes or deletes an order item.
C21_OnlyStatusChargeAndUpdatedAtChange ==
  [][/\ OrdersKeptBut({"status", "payment_status", "stripe_charge_id", "updated_at"})
     /\ ItemsKept]_vars

\* C21 witness: an order has been touched after the clock moved on (by the webhook
\* or by the admin), next to its order items.
C21_Witness ==
  \E i \in DOMAIN orders :
    /\ orders[i].updated_at > orders[i].created_at
    /\ orders[i].status \in {"paid", "delivered", "confirmed"}
    /\ ItemRowsOf(orders[i].id) # <<>>

\* C22: a checkout request reads the catalog only: no step of a checkout, whether
\* the request is accepted, rejected or ends in an error, changes the stock,
\* price, sale price or active flag (or any other column) of a product.
C22_CheckoutReadsCatalogOnly ==
  [][req' # req => products' = products]_vars

\* C22 witness: one checkout has been accepted, another has ended otherwise, and
\* the catalog is the one the store started with.
C22_Witness ==
  /\ updates = 0
  /\ products = SeedProducts(worker)
  /\ \E p, q \in Procs :
       /\ Accepted(p) /\ req[p].lineItems # <<>>
       /\ req[q].pc = "done" /\ req[q].resp.status \in {422, 500}

\* C23: a verified payment_intent.succeeded event changes only the order whose
\* stored intent id is the event's: the order named in the event's metadata is
\* left as it is unless it holds that intent, and at most one order changes.
C23_RowSelectedByIntentId ==
  \A event \in Events, t \in 0..MaxClock :
    (event.signed /\ event.type = "payment_intent.succeeded")
      => LET after == WebhookRows(orders, event, t)
             changed == {i \in DOMAIN orders : after[i] # orders[i]}
         IN /\ \A i \in changed : orders[i].stripe_payment_intent = event.id
            /\ Cardinality(changed) <= 1
            /\ \A i \in DOMAIN orders :
                 (orders[i].id = event.order_id
                    /\ orders[i].stripe_payment_intent # event.id)
                   => after[i] = orders[i]

\* C23 witness: intent 1 is stored on order 2; a delivery for intent 1, whose
\* metadata names order 1, has marked order 2 paid and left order 1 pending.
C23_Witness ==
  /\ hook.status = 200 /\ hook.matched = 1
  /\ Len(orders) = 2
  /\ orders[2].stripe_payment_intent = 1 /\ orders[2].status = "paid"
  /\ orders[1].status = "pending" /\ orders[1].stripe_charge_id = NULLS

\* no two orders carry the same payment-intent id
IntentIdsUnique ==
  \A i, j \in DOMAIN orders :
    (i # j /\ orders[i].stripe_payment_intent # NULL)
      => orders[i].stripe_payment_intent # orders[j].stripe_payment_intent

\* C24: in every reachable state no two orders carry the same payment-intent id,
\* and the intent id of an order is written at most once: it goes from NULL to
\* a value, in a step of the checkout that created the order, and no step
\* overwrites or clears it afterwards.
C24_IntentIdUniqueWrittenOnce ==
  /\ []IntentIdsUnique
  /\ [][\A i \in DOMAIN orders :
          orders'[i].stripe_payment_intent # orders[i].stripe_payment_intent
            => /\ orders[i].stripe_payment_intent = NULL
               /\ \E p \in Procs :
                    /\ req[p].orderId = orders[i].id
                    /\ req[p].pc = "store" /\ req'[p].pc = "done"
                    /\ orders'[i].stripe_payment_intent = req[p].paymentIntent]_vars

\* C24 witness: two orders hold two different intent ids, and one of them has
\* been paid since.
C24_Witness ==
  /\ Len(orders) = 2
  /\ orders[1].stripe_payment_intent # NULL
  /\ orders[2].stripe_payment_intent # NULL
  /\ orders[1].stripe_payment_intent # orders[2].stripe_payment_intent
  /\ \E i \in DOMAIN orders : orders[i].status = "paid"

\* a caller without a valid token is answered 401 and one whose token has another
\* role than admin 403, whatever the body
NonAdminRefused ==
  \A body \in PutOrderBodies :
    /\ PutOrderResp("none", body).status = 401
    /\ PutOrderResp("customer", body).status = 403

\* the status of an order that exists changes in this step
StatusChanges ==
  \E i \in DOMAIN orders : orders'[i].status # orders[i].status

\* a step that changes a status is a matched delivery or an accepted admin update
StatusStep ==
  StatusChanges
    => /\ req' = req /\ products' = products /\ now' = now
       /\ order_items' = order_items
       /\ \/ /\ worker = "stripe"
             /\ hook'.status = 200 /\ hook'.matched = 1
             /\ put' = put
          \/ /\ worker = "whatsapp"
             /\ put'.status = 200 /\ updates' = updates + 1
             /\ hook' = hook

\* a status update answered 401 or 403 changes no order
RefusedStep ==
  (updates' # updates /\ put'.status \in {401, 403}) => orders' = orders

\* C25: the status of an existing order changes only in a step of a verified
\* payment_intent.succeeded delivery that matched it or of a
\* PUT /api/admin/orders/:id that was answered 200, which only an admin's is; a
\* request answered 401 or 403 changes no order, and no step of a checkout, of a
\* product update or of the clock changes a status.
C25_StatusChangedOnlyByWebhookOrAdmin ==
  /\ []NonAdminRefused
  /\ [][StatusStep /\ RefusedStep]_vars

\* C25 witness: a status update was refused with 401 or 403 while an order was
\* waiting, and the order is still in its first state.
C25_Witness ==
  /\ put.status \in {401, 403}
  /\ orders # <<>>
  /\ \A i \in DOMAIN orders : orders[i].status = "pending_whatsapp"

\* the gift-wrapping options and their fees
WrappingFees == [none |-> 0, standard |-> 300, premium |-> 600]

\* request p of the WhatsApp build selects a gift wrapping that is not an option,
\* in a body that passes every other check of its fields
UnknownWrapping(p) ==
  /\ req[p].pc = "done"
  /\ Has(req[p].body, "gift_wrapping")
  /\ req[p].body.gift_wrapping \notin DOMAIN WrappingFees
  /\ WaFieldError([req[p].body EXCEPT !.gift_wrapping = "none"]) = ""

\* an accepted request is charged the fee of its option, 0 when it names none
FeeOfOption(p) ==
  Accepted(p)
    => LET option == Get(req[p].body, "gift_wrapping", "none")
           r == req[p].resp
       IN /\ option \in DOMAIN WrappingFees
          /\ r.wrapping_fee = WrappingFees[option]
          /\ orders[req[p].orderId].total
               = r.subtotal + r.shipping + WrappingFees[option] - r.discount
          /\ ~Has(req[p].body, "gift_wrapping")
               => r.wrapping_fee = 0 /\ r.total = r.subtotal + r.shipping - r.discount

\* C26 as stated: the surcharge is the fee of the selected option (none 0,
\* standard 300, premium 600), and a checkout whose selection is omitted or is
\* not one of the options is processed with surcharge 0: the order is created
\* with total = subtotal + shipping - discount.
C26_UnknownWrappingIsFree ==
  worker = "whatsapp"
    => \A p \in Procs :
         /\ FeeOfOption(p)
         /\ (UnknownWrapping(p) /\ req[p].fault = "" /\ req[p].resp.status # 422)
              => /\ req[p].resp.status = 200
                 /\ req[p].resp.wrapping_fee = 0
                 /\ req[p].resp.total
                      = req[p].resp.subtotal + req[p].resp.shipping - req[p].resp.discount

\* C26, amended: the surcharge is the fee of the selected option, a checkout
\* whose selection is omitted is processed with surcharge 0, and a checkout whose
\* selection is not one of the options is rejected with 400 before any lookup
\* and creates no order.
C26_UnknownWrappingRejected ==
  worker = "whatsapp"
    => \A p \in Procs :
         /\ FeeOfOption(p)
         /\ UnknownWrapping(p)
              => /\ req[p].resp.status = 400
                 /\ req[p].resp.error = "Invalid gift wrapping option"
                 /\ req[p].lookups = 0
                 /\ req[p].orderId = NULL

\* C26 witness: a request with an unknown selection has been rejected, and one
\* that selected the premium box has been accepted and charged 600.
C26_Witness ==
  \E p, q \in Procs :
    /\ UnknownWrapping(p) /\ req[p].resp.status = 400
    /\ Accepted(q) /\ Get(req[q].body, "gift_wrapping", "none") = "premium"
    /\ req[q].resp.wrapping_fee = 600

\* C27: a PUT /api/admin/orders/:id addressed to an order id that does not exist
\* is answered with 404 (unless it is refused before, with 401, 403 or 400), not
\* with a success, and changes no row.
C27_MissingOrderIs404 ==
  put.missing => put.status \in {400, 401, 403, 404}

\* C28: in the WhatsApp checkout, for every accepted order and every product, the
\* quantities of all the cart lines of that product together do not exceed the
\* stock the lookup returned, also when the product is on two or more lines.
C28_DuplicateLinesWithinStock ==
  worker = "whatsapp"
    => \A p \in Procs :
         req[p].orderId # NULL
           => \A id \in DOMAIN req[p].dbProducts :
                SumQty(req[p].lineItems, id) <= req[p].dbProducts[id].stock

\* every line of the cart of request p names a product the Stripe lookup returned
\* (one that exists and is active) whose stock is at least the line's quantity
EveryLineValid(p) ==
  \A i \in DOMAIN CartOf(req[p].body) :
    LET item == CartOf(req[p].body)[i]
    IN /\ item.product_id \in DOMAIN req[p].dbProducts
       /\ req[p].dbProducts[item.product_id].stock >= item.quantity

\* C29: the Stripe checkout accepts a non-empty cart exactly when every line
\* names an existing active product whose stock is at least the line's quantity:
\* a request that has got past the lookup is rejected with 422 exactly when some
\* line is not valid, so a cart that lists a valid product on two lines, each
\* within stock, is not rejected.
C29_StripeAcceptsValidCarts ==
  worker = "stripe"
    => \A p \in Procs :
         (req[p].lookups > 0 /\ req[p].pc \notin {"idle", "validate"})
           => (req[p].resp.status = 422 <=> ~EveryLineValid(p))

\* C30: in the Stripe checkout the response that carries client_secret is sent
\* only after the intent id has been stored on the order: from the response on,
\* every verified payment_intent.succeeded event for that intent matches exactly
\* one order, the one this checkout created, and marks it paid.
C30_ClientSecretAfterIntentStored ==
  worker = "stripe"
    => \A p \in Procs :
         req[p].resp.client_secret # NULL
           => /\ req[p].resp.client_secret = req[p].paymentIntent
              /\ req[p].resp.order_id = req[p].orderId
              /\ orders[req[p].orderId].stripe_payment_intent = req[p].paymentIntent
              /\ \A event \in Events, t \in 0..MaxClock :
                   (/\ event.signed
                    /\ event.type = "payment_intent.succeeded"
                    /\ event.id = req[p].paymentIntent)
                     => LET after == WebhookRows(orders, event, t)
                        IN /\ {i \in DOMAIN orders :
                                 orders[i].stripe_payment_intent = event.id}
                                = {req[p].orderId}
                           /\ after[req[p].orderId].status = "paid"
                           /\ after[req[p].orderId].stripe_charge_id = Charge(event)
                           /\ \A i \in DOMAIN orders :
                                i # req[p].orderId => after[i] = orders[i]

\* C30 witness: a checkout has answered with its client_secret, and a delivery
\* for its intent has since matched its order and marked it paid, while the
\* other checkout's order is still pending.
C30_Witness ==
  \E p, q \in Procs :
    /\ Accepted(p) /\ req[p].resp.client_secret # NULL
    /\ hook.status = 200 /\ hook.matched = 1
    /\ orders[req[p].orderId].status = "paid"
    /\ orders[req[p].orderId].stripe_payment_intent = req[p].resp.client_secret
    /\ req[q].orderId # NULL /\ q # p
    /\ orders[req[q].orderId].status = "pending"
====
